---- MODULE Spec2Model ----
(***************************************************************************)
(* GestureDetector (src/gesture_detector.py): the per-frame step           *)
(* detect_gesture and reset, as a state machine.                           *)
(*                                                                         *)
(* Units.  Normalised image coordinates are integers in thousandths        *)
(* (0.30 is 300).  Times are integers in half seconds (1.5 s is 3, 5.0 s   *)
(* is 10).  A vote ratio a/b is compared with a percentage p as            *)
(* 100*a > p*b.  The sampled coordinates are chosen so that no difference  *)
(* of two of them equals a threshold of the code, where the result of the  *)
(* binary floating-point comparison depends on rounding.                   *)
(***************************************************************************)
EXTENDS Integers, Sequences, FiniteSets, TLC

(* ---- configuration set by GestureDetector.__init__ ---- *)
swipe_threshold_left == 100
swipe_threshold_right == 120
fast_swipe_threshold == 200
gesture_cooldown == 3
min_frames == 3
max_frames == 25
lick_timeout == 10
history_size == 15
(* literals of detect_gesture and is_finger_lick_pose *)
lip_radius == 80
noise_floor == 10
min_samples == 5
pose_margin == 50
top_of_frame == 500

(* ---- bounds of the model ---- *)
(* The clock stops at MaxTime.  Between two calls it stands still or       *)
(* advances by one of the steps of Dts (1.5 s, 5 s), so that the           *)
(* differences 0, 1.5 s, 5 s and more than 5 s all occur.  Within the      *)
(* samples a history holds, the hand changes position at most MaxTurns     *)
(* times.                                                                  *)
MaxTime == 13
MaxTurns == 1
Dts == {0, 3, 10}
(* The classifier alone is applied to every pair of histories of           *)
(* min_samples to MaxLen samples over ClassifyXs (finger) and ClassifyTs   *)
(* (thumb).  The finger positions lie 0.007, 0.086, 0.115, 0.122, 0.201    *)
(* and 0.208 apart: inside the noise floor, below both distance            *)
(* thresholds, between them, above both, and above the fast threshold.     *)
MaxLen == 5
ClassifyXs == {300, 307, 422, 508}
ClassifyTs == {350, 400}

(* One tracking step is applied to every pair of histories of              *)
(* min_samples - 1 to MaxPre samples over TrackXs (finger) and TrackTs     *)
(* (thumb), followed by every hand position over the same values.  The     *)
(* finger positions lie 0.02, 0.13 and 0.15 apart: a vote, a net           *)
(* displacement past the left threshold, and one past the right threshold. *)
MaxPre == 5
TrackXs == {300, 320, 450}
TrackTs == {350, 400}
TrackTime == 4

None == "None"
NoX == <<>>

(* ---- the frames fed to detect_gesture ---- *)
(* A hand observation holds the landmarks the code reads: 4 (thumb tip),   *)
(* 6 (index middle joint), 8 (index tip), 12 (middle tip), 16 (ring tip),  *)
(* 20 (pinky tip).                                                         *)
PointingHand ==
    [thumb_x |-> 520, index_x |-> 700, index_y |-> 300, pip_y |-> 400,
     middle_x |-> 720, middle_y |-> 450, ring_y |-> 450, pinky_y |-> 450]

FlatHand(mx, tx) ==
    [thumb_x |-> tx, index_x |-> mx - 15, index_y |-> 600, pip_y |-> 620,
     middle_x |-> mx, middle_y |-> 600, ring_y |-> 610, pinky_y |-> 620]

SwipeXs == {<<300, 350>>, <<430, 480>>}

Hands == {PointingHand} \cup {FlatHand(p[1], p[2]) : p \in SwipeXs}

(* A face observation holds landmarks 13 (upper lip) and 14 (lower lip).   *)
Face == [upper_x |-> 500, upper_y |-> 580, lower_x |-> 500, lower_y |-> 620]

Frame(hands, faces) == [hands |-> hands, faces |-> faces]

(* No hand and every hand without a face, and with a face the hand at 0.43 *)
(* (index tip inside the lip zone) and the pointing hand (outside it).     *)
Frames ==
    {Frame(<<>>, <<>>)} \cup {Frame(<<h>>, <<>>) : h \in Hands}
    \cup {Frame(<<FlatHand(430, 480)>>, <<Face>>),
          Frame(<<PointingHand>>, <<Face>>)}

NoFrame == [hands |-> <<>>, faces |-> <<>>]

VARIABLES
    finger_licked, lick_time, last_gesture_time, was_at_lips,
    gesture_started, movement_frames, start_x,
    position_history, thumb_history,
    now,        \* time.time() read by the latest call
    frame,      \* the observations of the latest detect_gesture call
    gesture,    \* the value returned by the latest detect_gesture call
    classified, \* whether the latest detect_gesture call ran the classifier
    call,       \* the latest call: "init", "detect_gesture" or "reset"
    primed,     \* history: priming went inactive -> active since the last event
    since_event, \* history: <<d>> for the time d from the last event emitted
                \* before the latest call to that call (d above the
                \* cooldown is kept as gesture_cooldown + 1), <<>> if none
    tracked,    \* the finger and thumb histories as the latest
                \* detect_gesture call held them right after appending its
                \* sample, <<<<>>, <<>>>> if it appended none
    consecutive, \* history: how many of the newest samples of each history,
                \* as the latest detect_gesture call held it right after its
                \* append, were appended by calls that followed one another
                \* directly; without an append, the count for the histories
                \* as they are
    pdf_path,   \* the number of pages of the file at PDFProcessor.pdf_path
    pages,      \* PDFProcessor.pages: page i of the file, once per load
    current_page, \* PDFProcessor.current_page
    returned,   \* <<v>> for the value v returned by the latest next_page
                \* or previous_page call, <<>> before the first
    page_before, \* history: current_page as the latest next_page or
                \* previous_page call found it
    indexed,    \* the positions of pages the latest render_book call read
    running, show_webcam, \* PDFBookReader's flags
    pending     \* the events pygame.event.get() handed to the latest
                \* handle_events call

vars == <<finger_licked, lick_time, last_gesture_time, was_at_lips,
          gesture_started, movement_frames, start_x,
          position_history, thumb_history, now, frame, gesture, classified,
          call, primed, since_event, tracked, consecutive,
          pdf_path, pages, current_page, returned, page_before, indexed,
          running, show_webcam, pending>>

reader_vars == <<pdf_path, pages, current_page, returned, page_before, indexed,
                 running, show_webcam, pending>>

detector_vars == <<finger_licked, lick_time, last_gesture_time, was_at_lips,
                   gesture_started, movement_frames, start_x,
                   position_history, thumb_history, now, frame, gesture,
                   classified, primed, since_event, tracked, consecutive>>

(* The detector's fields as one value. *)
self ==
    [finger_licked |-> finger_licked, lick_time |-> lick_time,
     last_gesture_time |-> last_gesture_time, was_at_lips |-> was_at_lips,
     gesture_started |-> gesture_started, movement_frames |-> movement_frames,
     start_x |-> start_x, position_history |-> position_history,
     thumb_history |-> thumb_history]

(* ---- is_finger_lick_pose ---- *)
is_finger_lick_pose(h) ==
    LET index_extended == h.index_y < h.pip_y - pose_margin
        index_near_top == h.index_y < top_of_frame
        index_most_extended ==
            /\ h.index_y < h.middle_y - pose_margin
            /\ h.index_y < h.ring_y - pose_margin
            /\ h.index_y < h.pinky_y - pose_margin
    IN  index_extended /\ index_near_top /\ index_most_extended

(* lip_region: <<>> without a face, else the centre (doubled, so that the  *)
(* average of the two lip landmarks stays an integer) and the radius.      *)
lip_region(faces) ==
    IF faces = <<>> THEN <<>>
    ELSE <<[x2 |-> faces[1].upper_x + faces[1].lower_x,
            y2 |-> faces[1].upper_y + faces[1].lower_y,
            radius |-> lip_radius]>>

(* distance < radius, squared and doubled on both sides *)
finger_at_lips(h, lip) ==
    IF lip = <<>> THEN FALSE
    ELSE LET dx2 == 2 * h.index_x - lip[1].x2
             dy2 == 2 * h.index_y - lip[1].y2
         IN  dx2 * dx2 + dy2 * dy2 < (2 * lip[1].radius) * (2 * lip[1].radius)

(* mutant: the two heuristics are combined with "and" *)
currently_at_lips_both(h, lip) == is_finger_lick_pose(h) /\ finger_at_lips(h, lip)

currently_at_lips(h, lip) == is_finger_lick_pose(h) \/ finger_at_lips(h, lip)

(* ---- the expiry check at the head of detect_gesture ---- *)
(* mutant: the expiry check compares with max_frames *)
lick_expired_wrong_limit(s, current_time) ==
    s.finger_licked /\ (current_time - s.lick_time > max_frames)

lick_expired(s, current_time) ==
    s.finger_licked /\ (current_time - s.lick_time > lick_timeout)

expire_lick(s, current_time) ==
    IF lick_expired(s, current_time) THEN [s EXCEPT !.finger_licked = FALSE] ELSE s

(* ---- the priming update ---- *)
(* mutant: priming leaves the cooldown of the previous event running *)
lick_update_keeps_cooldown(s, at_lips, current_time) ==
    IF at_lips
    THEN IF ~s.finger_licked
         THEN [s EXCEPT !.was_at_lips = TRUE, !.finger_licked = TRUE,
                        !.lick_time = current_time]
         ELSE [s EXCEPT !.was_at_lips = TRUE]
    ELSE IF s.was_at_lips /\ s.finger_licked
         THEN [s EXCEPT !.was_at_lips = FALSE]
         ELSE s

(* mutant: priming restarts the cooldown instead of ending it *)
lick_update_restarts_cooldown(s, at_lips, current_time) ==
    IF at_lips
    THEN IF ~s.finger_licked
         THEN [s EXCEPT !.was_at_lips = TRUE, !.finger_licked = TRUE,
                        !.lick_time = current_time,
                        !.last_gesture_time = current_time]
         ELSE [s EXCEPT !.was_at_lips = TRUE]
    ELSE IF s.was_at_lips /\ s.finger_licked
         THEN [s EXCEPT !.was_at_lips = FALSE]
         ELSE s

(* mutant: every frame with the pose refreshes the priming time *)
lick_update_refreshes(s, at_lips, current_time) ==
    IF at_lips
    THEN IF ~s.finger_licked
         THEN [s EXCEPT !.was_at_lips = TRUE, !.finger_licked = TRUE,
                        !.lick_time = current_time, !.last_gesture_time = 0]
         ELSE [s EXCEPT !.was_at_lips = TRUE, !.lick_time = current_time]
    ELSE IF s.was_at_lips /\ s.finger_licked
         THEN [s EXCEPT !.was_at_lips = FALSE]
         ELSE s

lick_update(s, at_lips, current_time) ==
    IF at_lips
    THEN IF ~s.finger_licked
         THEN [s EXCEPT !.was_at_lips = TRUE, !.finger_licked = TRUE,
                        !.lick_time = current_time, !.last_gesture_time = 0]
         ELSE [s EXCEPT !.was_at_lips = TRUE]
    ELSE IF s.was_at_lips /\ s.finger_licked
         THEN [s EXCEPT !.was_at_lips = FALSE]
         ELSE s

(* ---- the position histories ---- *)
(* mutant: nothing is evicted *)
Push_unbounded(h, x) == Append(h, x)

(* mutant: a full history drops the new sample *)
Push_drops_newest(h, x) ==
    LET a == Append(h, x)
    IN  IF Len(a) > history_size THEN SubSeq(a, 1, history_size) ELSE a

Push(h, x) ==
    LET a == Append(h, x)
    IN  IF Len(a) > history_size THEN Tail(a) ELSE a

(* mutant: tracking stops, the histories stay *)
(* mutant: only the finger history is cleared *)
clear_tracking_finger_only(s) ==
    [s EXCEPT !.gesture_started = FALSE,
              !.movement_frames = 0,
              !.position_history = <<>>]

clear_tracking_keeps_histories(s) == [s EXCEPT !.gesture_started = FALSE]

clear_tracking(s) ==
    [s EXCEPT !.gesture_started = FALSE,
              !.position_history = <<>>, !.thumb_history = <<>>]

(* ---- the swipe classifier ---- *)
(* mutant: rightward votes also count the steps inside the noise floor *)
votes_right_sign_slip(h) ==
    Cardinality({i \in 2..Len(h) : h[i] - h[i-1] > -noise_floor})

votes_right(h) == Cardinality({i \in 2..Len(h) : h[i] - h[i-1] > noise_floor})
(* mutant: leftward votes also count the steps inside the noise floor *)
votes_left_sign_slip(h) ==
    Cardinality({i \in 2..Len(h) : h[i] - h[i-1] < noise_floor})

(* mutant: leftward votes are counted without the noise floor *)
votes_left_no_floor(h) == Cardinality({i \in 2..Len(h) : h[i] - h[i-1] < 0})

votes_left(h) == Cardinality({i \in 2..Len(h) : h[i] - h[i-1] < -noise_floor})

Abs(n) == IF n < 0 THEN -n ELSE n

(* mutant: the ratios are computed without the zero-vote guard, and the   *)
(* division by zero raises *)
classify_unguarded(H_f, H_t) ==
    LET total_movement == H_f[Len(H_f)] - H_f[1]
        movements_right == votes_right(H_f)
        movements_left == votes_left(H_f)
        thumb_right == votes_right(H_t)
        thumb_left == votes_left(H_t)
        total_movements == movements_right + movements_left
        total_thumb_movements == thumb_right + thumb_left
        is_fast_swipe == Abs(total_movement) > fast_swipe_threshold
        required_consistency_left == IF is_fast_swipe THEN 45 ELSE 55
        required_consistency_right == IF is_fast_swipe THEN 50 ELSE 60
        thumb_finger_agreement_right ==
            /\ 100 * movements_right > 50 * total_movements
            /\ 100 * thumb_right > 50 * total_thumb_movements
        thumb_finger_agreement_left ==
            /\ 100 * movements_left > 45 * total_movements
            /\ 100 * thumb_left > 45 * total_thumb_movements
    IN  IF total_movements = 0 \/ total_thumb_movements = 0
        THEN "ZeroDivisionError"
        ELSE IF /\ total_movement > swipe_threshold_right
                /\ 100 * movements_right > required_consistency_right * total_movements
                /\ thumb_finger_agreement_right
             THEN "right"
             ELSE IF /\ total_movement < -swipe_threshold_left
                     /\ 100 * movements_left > required_consistency_left * total_movements
                     /\ thumb_finger_agreement_left
                  THEN "left"
                  ELSE None

(* mutant: the decision ignores the thumb's direction *)
classify_finger_only(H_f, H_t) ==
    LET total_movement == H_f[Len(H_f)] - H_f[1]
        movements_right == votes_right(H_f)
        movements_left == votes_left(H_f)
        total_movements == movements_right + movements_left
        total_thumb_movements == votes_right(H_t) + votes_left(H_t)
        is_fast_swipe == Abs(total_movement) > fast_swipe_threshold
        required_consistency_left == IF is_fast_swipe THEN 45 ELSE 55
        required_consistency_right == IF is_fast_swipe THEN 50 ELSE 60
    IN  IF total_movements > 0 /\ total_thumb_movements > 0
        THEN IF /\ total_movement > swipe_threshold_right
                /\ 100 * movements_right > required_consistency_right * total_movements
             THEN "right"
             ELSE IF /\ total_movement < -swipe_threshold_left
                     /\ 100 * movements_left > required_consistency_left * total_movements
                  THEN "left"
                  ELSE None
        ELSE None

classify(H_f, H_t) ==
    LET total_movement == H_f[Len(H_f)] - H_f[1]
        movements_right == votes_right(H_f)
        movements_left == votes_left(H_f)
        thumb_right == votes_right(H_t)
        thumb_left == votes_left(H_t)
        total_movements == movements_right + movements_left
        total_thumb_movements == thumb_right + thumb_left
        is_fast_swipe == Abs(total_movement) > fast_swipe_threshold
        required_consistency_left == IF is_fast_swipe THEN 45 ELSE 55
        required_consistency_right == IF is_fast_swipe THEN 50 ELSE 60
        thumb_finger_agreement_right ==
            /\ 100 * movements_right > 50 * total_movements
            /\ 100 * thumb_right > 50 * total_thumb_movements
        thumb_finger_agreement_left ==
            /\ 100 * movements_left > 45 * total_movements
            /\ 100 * thumb_left > 45 * total_thumb_movements
    IN  IF total_movements > 0 /\ total_thumb_movements > 0
        THEN IF /\ total_movement > swipe_threshold_right
                /\ 100 * movements_right > required_consistency_right * total_movements
                /\ thumb_finger_agreement_right
             THEN "right"
             ELSE IF /\ total_movement < -swipe_threshold_left
                     /\ 100 * movements_left > required_consistency_left * total_movements
                     /\ thumb_finger_agreement_left
                  THEN "left"
                  ELSE None
        ELSE None

(* ---- swipe tracking ---- *)
(* mutant: the cooldown ends at gesture_cooldown, not after it *)
in_cooldown_strict(s, current_time) ==
    current_time - s.last_gesture_time < gesture_cooldown

(* mutant: the cooldown is never in force *)
in_cooldown_never(s, current_time) == FALSE

in_cooldown(s, current_time) ==
    current_time - s.last_gesture_time <= gesture_cooldown

(* mutant: the classifier runs without the 5-sample condition *)
ready_without_samples(s) == s.movement_frames >= min_frames

ready_to_classify(s) ==
    /\ s.movement_frames >= min_frames
    /\ Len(s.position_history) >= min_samples
    /\ Len(s.thumb_history) >= min_samples

(* mutant: an emitted event leaves priming active *)
emit_keeps_priming(s, g, current_time) ==
    [s EXCEPT !.last_gesture_time = current_time, !.gesture_started = FALSE,
              !.position_history = <<>>, !.thumb_history = <<>>]

(* mutant: an emitted event does not record its time *)
emit_without_time(s, g, current_time) ==
    [s EXCEPT !.gesture_started = FALSE, !.finger_licked = FALSE,
              !.position_history = <<>>, !.thumb_history = <<>>]

emit(s, g, current_time) ==
    [s EXCEPT !.last_gesture_time = current_time, !.gesture_started = FALSE,
              !.finger_licked = FALSE,
              !.position_history = <<>>, !.thumb_history = <<>>]

(* mutant: the run is discarded one frame later *)
too_slow_off_by_one(s) == s.movement_frames > max_frames + 1

too_slow(s) == s.movement_frames > max_frames

discard_slow(r) ==
    IF too_slow(r.self) THEN [r EXCEPT !.self = clear_tracking(@)] ELSE r

(* What one call yields: the fields after it, the value it returns, and    *)
(* whether it ran the classifier.                                          *)
Result(s, g, c) == [self |-> s, gesture |-> g, classified |-> c]

track_swipe(s, current_x, thumb_x, current_time) ==
    LET s1 == [s EXCEPT !.position_history = Push(@, current_x),
                        !.thumb_history = Push(@, thumb_x)]
    IN  IF ~s1.gesture_started
        THEN Result([s1 EXCEPT !.start_x = <<current_x>>,
                                   !.gesture_started = TRUE,
                                   !.movement_frames = 0], None, FALSE)
        ELSE LET s2 == [s1 EXCEPT !.movement_frames = @ + 1]
                 g == classify(s2.position_history, s2.thumb_history)
             IN  discard_slow(
                   IF in_cooldown(s2, current_time)
                   THEN Result(clear_tracking(s2), None, FALSE)
                   ELSE IF ready_to_classify(s2)
                        THEN IF g # None
                             THEN Result(emit(s2, g, current_time), g, TRUE)
                             ELSE Result(s2, None, TRUE)
                        ELSE Result(s2, None, FALSE))

(* ---- the two branches on the hand observation ---- *)
(* mutant: swipes are tracked whether or not priming is active *)
hand_present_ungated(s, hand, lip, current_time) ==
    LET at_lips == currently_at_lips(hand, lip)
        s1 == lick_update(s, at_lips, current_time)
    IN  IF ~at_lips
        THEN track_swipe(s1, hand.middle_x, hand.thumb_x, current_time)
        ELSE Result(clear_tracking(s1), None, FALSE)

hand_present(s, hand, lip, current_time) ==
    LET at_lips == currently_at_lips(hand, lip)
        s1 == lick_update(s, at_lips, current_time)
    IN  IF s1.finger_licked /\ ~at_lips
        THEN track_swipe(s1, hand.middle_x, hand.thumb_x, current_time)
        ELSE Result(clear_tracking(s1), None, FALSE)

(* mutant: losing the hand also clears priming *)
hand_absent_clears_priming(s) ==
    Result([s EXCEPT !.gesture_started = FALSE, !.start_x = NoX,
                     !.finger_licked = FALSE], None, FALSE)

hand_absent(s) ==
    Result([s EXCEPT !.gesture_started = FALSE, !.start_x = NoX], None, FALSE)

(* ---- detect_gesture: (fields, frame, time) -> (fields, event) ---- *)
detect_gesture(s, f, current_time) ==
    LET s1 == expire_lick(s, current_time)
        lip == lip_region(f.faces)
    IN  IF f.hands # <<>>
        THEN hand_present(s1, f.hands[1], lip, current_time)
        ELSE hand_absent(s1)

(* ---- reset ---- *)
reset(s) ==
    [s EXCEPT !.start_x = NoX, !.gesture_started = FALSE,
              !.movement_frames = 0, !.last_gesture_time = 0,
              !.position_history = <<>>, !.thumb_history = <<>>,
              !.finger_licked = FALSE]

(* ---- facts about one step, from its pre-state and its frame ---- *)
PoseDetected(f) ==
    f.hands # <<>> /\ currently_at_lips(f.hands[1], lip_region(f.faces))

RisingEdge(s, f, current_time) ==
    PoseDetected(f) /\ ~expire_lick(s, current_time).finger_licked

(* The time since the last event, once dt more has passed. *)
Elapsed(dt) ==
    LET capped(d) == IF d > gesture_cooldown THEN gesture_cooldown + 1 ELSE d
    IN  IF gesture # None THEN <<capped(dt)>>
        ELSE IF since_event = <<>> THEN <<>>
        ELSE <<capped(since_event[1] + dt)>>

(* The histories right after the append of lines 190-196, before any      *)
(* branch clears them.                                                     *)
NotTracked == <<<<>>, <<>>>>

appended(s, f, current_time) ==
    IF f.hands = <<>> THEN NotTracked
    ELSE LET hand == f.hands[1]
             at_lips == currently_at_lips(hand, lip_region(f.faces))
             s1 == lick_update(expire_lick(s, current_time), at_lips, current_time)
         IN  IF s1.finger_licked /\ ~at_lips
             THEN <<Push(s1.position_history, hand.middle_x),
                    Push(s1.thumb_history, hand.thumb_x)>>
             ELSE NotTracked

(* The count of directly consecutive newest samples of a call: when it     *)
(* appends, one more than before if the call before appended too and left  *)
(* its sample in the histories, else 1; when it appends nothing, unchanged, *)
(* or 0 once the histories are empty.                                      *)
consecutive_after(before_appended, history_after, app) ==
    IF app = NotTracked
    THEN IF history_after = <<>> THEN 0 ELSE consecutive
    ELSE IF before_appended /\ position_history # <<>> /\ consecutive > 0
         THEN IF consecutive < history_size THEN consecutive + 1
              ELSE history_size
         ELSE 1

Turns(h) == Cardinality({i \in 2..Len(h) : h[i] # h[i-1]})

(* ---- the state machine ---- *)
Store(s) ==
    /\ finger_licked' = s.finger_licked
    /\ lick_time' = s.lick_time
    /\ last_gesture_time' = s.last_gesture_time
    /\ was_at_lips' = s.was_at_lips
    /\ gesture_started' = s.gesture_started
    /\ movement_frames' = s.movement_frames
    /\ start_x' = s.start_x
    /\ position_history' = s.position_history
    /\ thumb_history' = s.thumb_history

InitDetector ==
    /\ finger_licked = FALSE
    /\ lick_time = 0
    /\ last_gesture_time = 0
    /\ was_at_lips = FALSE
    /\ gesture_started = FALSE
    /\ movement_frames = 0
    /\ start_x = NoX
    /\ position_history = <<>>
    /\ thumb_history = <<>>
    /\ now = 0
    /\ frame = NoFrame
    /\ gesture = None
    /\ classified = FALSE
    /\ call = "init"
    /\ primed = FALSE
    /\ since_event = <<>>
    /\ tracked = NotTracked
    /\ consecutive = 0

(* PDFProcessor.__init__ before load_pdf and PDFBookReader.__init__ *)
InitReader ==
    /\ current_page = 0
    /\ returned = <<>>
    /\ page_before = 0
    /\ indexed = {}
    /\ running = TRUE
    /\ show_webcam = TRUE
    /\ pending = <<>>

Init == InitDetector /\ InitReader /\ pdf_path = 0 /\ pages = <<>>

(* One detect_gesture call on frame f, dt after the latest call. *)
DetectOn(f, dt) ==
        /\ now + dt <= MaxTime
        /\ \E r \in {detect_gesture(self, f, now + dt)} :
              /\ Turns(r.self.position_history) <= MaxTurns
              /\ Store(r.self)
              /\ now' = now + dt
              /\ frame' = f
              /\ gesture' = r.gesture
              /\ classified' = r.classified
              /\ primed' = IF r.gesture # None THEN FALSE
                           ELSE IF RisingEdge(self, f, now + dt) THEN TRUE
                           ELSE primed
              /\ since_event' = Elapsed(dt)
              /\ tracked' = appended(self, f, now + dt)
              /\ consecutive' =
                    consecutive_after(call \in {"detect_gesture", "run"}
                                          /\ tracked # NotTracked,
                                      r.self.position_history,
                                      appended(self, f, now + dt))

DetectGesture ==
    \E f \in Frames, dt \in Dts :
        /\ DetectOn(f, dt)
        /\ call' = "detect_gesture"
        /\ UNCHANGED reader_vars

Reset ==
    /\ Store(reset(self))
    /\ call' = "reset"
    /\ consecutive' = 0
    /\ UNCHANGED <<now, frame, gesture, classified, primed, since_event,
                   tracked>>
    /\ UNCHANGED reader_vars

(* The class under any caller: its two public methods in any order.  The   *)
(* application itself, which only ever calls detect_gesture, is SpecApp.   *)
Next == DetectGesture \/ Reset

Spec == Init /\ [][Next]_vars

(* The same class on a wall clock: the detector as constructed, with the   *)
(* first call at a clock that reads more than the cooldown, as time.time() *)
(* does.                                                                   *)
InitWallClock ==
    /\ finger_licked = FALSE
    /\ lick_time = 0
    /\ last_gesture_time = 0
    /\ was_at_lips = FALSE
    /\ gesture_started = FALSE
    /\ movement_frames = 0
    /\ start_x = NoX
    /\ position_history = <<>>
    /\ thumb_history = <<>>
    /\ now = TrackTime
    /\ frame = NoFrame
    /\ gesture = None
    /\ classified = FALSE
    /\ call = "init"
    /\ primed = FALSE
    /\ since_event = <<>>
    /\ tracked = NotTracked
    /\ consecutive = 0
    /\ InitReader
    /\ pdf_path = 0
    /\ pages = <<>>

SpecWallClock == InitWallClock /\ [][Next]_vars

(* ---- the classifier on its own ---- *)
SeqsOf(S, n) == [1..n -> S]

(* A call at line 215: priming is active, the clock reads more than the    *)
(* cooldown, and a run restarted min_frames frames ago has just appended   *)
(* its sample and counted its frame (samples older than the run are the    *)
(* ones hand-absent frames left behind).                                   *)
InitClassify ==
    /\ \E n \in min_samples..MaxLen :
          /\ position_history \in SeqsOf(ClassifyXs, n)
          /\ thumb_history \in SeqsOf(ClassifyTs, n)
    /\ finger_licked = TRUE
    /\ lick_time = TrackTime
    /\ last_gesture_time = 0
    /\ was_at_lips = FALSE
    /\ gesture_started = TRUE
    /\ movement_frames = min_frames
    /\ start_x = <<position_history[Len(position_history) - min_frames]>>
    /\ now = TrackTime
    /\ frame = NoFrame
    /\ gesture = None
    /\ classified = FALSE
    /\ call = "init"
    /\ primed = TRUE
    /\ since_event = <<>>
    /\ tracked = <<position_history, thumb_history>>
    /\ consecutive = min_frames + 1
    /\ InitReader
    /\ pdf_path = 0
    /\ pages = <<>>

(* Lines 215-307 on such a state: the classifier, the resets of an emitted *)
(* event, the max_frames test.                                             *)
Classify ==
    /\ call = "init"
    /\ ~in_cooldown(self, now)
    /\ ready_to_classify(self)
    /\ \E g \in {classify(position_history, thumb_history)} :
          \E r \in {discard_slow(IF g # None
                                 THEN Result(emit(self, g, now), g, TRUE)
                                 ELSE Result(self, None, TRUE))} :
              /\ Store(r.self)
              /\ gesture' = r.gesture
              /\ classified' = r.classified
              /\ primed' = IF r.gesture # None THEN FALSE ELSE primed
    /\ call' = "classify"
    /\ UNCHANGED <<now, frame, since_event, tracked, consecutive>>
    /\ UNCHANGED reader_vars

NextClassify == Classify

SpecClassify == InitClassify /\ [][NextClassify]_vars

(* ---- one tracking step on given histories ---- *)
(* Priming is active, the cooldown is over, and a tracking run restarted   *)
(* min_frames - 1 frames ago holds the histories (samples older than the   *)
(* run are the ones a hand-absent frame left behind).                      *)
InitTrack ==
    /\ \E n \in (min_samples - 1)..MaxPre :
          /\ position_history \in SeqsOf(TrackXs, n)
          /\ thumb_history \in SeqsOf(TrackTs, n)
    /\ finger_licked = TRUE
    /\ lick_time = TrackTime
    /\ last_gesture_time = 0
    /\ was_at_lips = FALSE
    /\ gesture_started = TRUE
    /\ movement_frames = min_frames - 1
    /\ start_x = <<position_history[Len(position_history) - (min_frames - 1)]>>
    /\ now = TrackTime
    /\ frame = NoFrame
    /\ gesture = None
    /\ classified = FALSE
    /\ call = "init"
    /\ primed = TRUE
    /\ since_event = <<>>
    /\ tracked = <<position_history, thumb_history>>
    /\ consecutive = min_frames
    /\ InitReader
    /\ pdf_path = 0
    /\ pages = <<>>

TrackStep ==
    /\ call = "init"
    /\ \E x \in TrackXs, t \in TrackTs :
          \E r \in {detect_gesture(self, Frame(<<FlatHand(x, t)>>, <<>>), now)} :
              /\ Store(r.self)
              /\ frame' = Frame(<<FlatHand(x, t)>>, <<>>)
              /\ gesture' = r.gesture
              /\ classified' = r.classified
              /\ call' = "detect_gesture"
              /\ tracked' = appended(self, Frame(<<FlatHand(x, t)>>, <<>>), now)
              /\ consecutive' =
                    consecutive_after(TRUE, r.self.position_history,
                                      appended(self, Frame(<<FlatHand(x, t)>>, <<>>), now))
              /\ primed' = IF r.gesture # None THEN FALSE ELSE primed
              /\ UNCHANGED <<now, since_event>>
    /\ UNCHANGED reader_vars

NextTrack == TrackStep

SpecTrack == InitTrack /\ [][NextTrack]_vars

(* ---- one step on a frame of any hand shape ---- *)
(* The index tip is at height 0.30 or 0.56, its middle joint and the other *)
(* three tips are each less than 0.05 below 0.30, more than 0.05 below     *)
(* 0.30, or more than 0.05 below 0.56.  No face, a face with its lips      *)
(* 0.064 from the index tip at (0.45, 0.56), or a face with its lips at    *)
(* the index tip at (0.70, 0.30).                                          *)
PoseHands ==
    { [thumb_x |-> 520, index_x |-> ix, index_y |-> iy, pip_y |-> py,
       middle_x |-> 720, middle_y |-> my, ring_y |-> ry, pinky_y |-> ky] :
        ix \in {450, 700}, iy \in {300, 560}, py \in {330, 400, 620},
        my \in {340, 450, 620}, ry \in {340, 450, 620},
        ky \in {340, 450, 620} }

HighFace == [upper_x |-> 700, upper_y |-> 290, lower_x |-> 700, lower_y |-> 310]

PoseFaces == {<<>>, <<Face>>, <<HighFace>>}

PoseStep ==
    /\ call = "init"
    /\ \E h \in PoseHands, faces \in PoseFaces :
          \E r \in {detect_gesture(self, Frame(<<h>>, faces), now)} :
              /\ Store(r.self)
              /\ frame' = Frame(<<h>>, faces)
              /\ gesture' = r.gesture
              /\ classified' = r.classified
              /\ call' = "detect_gesture"
              /\ primed' = RisingEdge(self, Frame(<<h>>, faces), now)
              /\ tracked' = appended(self, Frame(<<h>>, faces), now)
              /\ consecutive' =
                    consecutive_after(FALSE, r.self.position_history,
                                      appended(self, Frame(<<h>>, faces), now))
              /\ UNCHANGED <<now, since_event>>
    /\ UNCHANGED reader_vars

NextPose == PoseStep

SpecPose == Init /\ [][NextPose]_vars

(* ---- the document and its pages ---- *)
MaxPages == 8

(* The pages of a file of n pages, in order. *)
Document(n) == [i \in 1..n |-> i - 1]

(* load_pdf appends one page per page of the file *)
load_pdf(p, n) == [p EXCEPT !.pages = @ \o Document(n)]

pdf_processor == [pages |-> pages, current_page |-> current_page]

get_page_count(p) == Len(p.pages)

Min(a, b) == IF a < b THEN a ELSE b
Max(a, b) == IF a > b THEN a ELSE b

(* mutant: the move forward is not clamped to the last page *)
next_page_unclamped(p) ==
    IF p.current_page < Len(p.pages) - 1
    THEN [self |-> [p EXCEPT !.current_page = p.current_page + 2],
          result |-> TRUE]
    ELSE [self |-> p, result |-> FALSE]

next_page(p) ==
    IF p.current_page < Len(p.pages) - 1
    THEN [self |-> [p EXCEPT !.current_page =
                        Min(p.current_page + 2, Len(p.pages) - 1)],
          result |-> TRUE]
    ELSE [self |-> p, result |-> FALSE]

(* mutant: the move back is by one page *)
previous_page_by_one(p) ==
    IF p.current_page > 0
    THEN [self |-> [p EXCEPT !.current_page = Max(p.current_page - 1, 0)],
          result |-> TRUE]
    ELSE [self |-> p, result |-> FALSE]

previous_page(p) ==
    IF p.current_page > 0
    THEN [self |-> [p EXCEPT !.current_page = Max(p.current_page - 2, 0)],
          result |-> TRUE]
    ELSE [self |-> p, result |-> FALSE]

(* The positions of pdf_processor.pages that render_book reads. *)
render_book(p) ==
    LET cp == p.current_page
        total_pages == get_page_count(p)
    IN  IF cp % 2 = 0
        THEN (IF cp > 0 THEN {cp - 1} ELSE {})
             \cup (IF cp < total_pages THEN {cp} ELSE {})
        ELSE {cp} \cup (IF cp + 1 < total_pages THEN {cp + 1} ELSE {})

InitPages ==
    /\ InitDetector
    /\ InitReader
    /\ \E n \in 0..MaxPages :
          /\ pdf_path = n
          /\ pages = load_pdf([pages |-> <<>>, current_page |-> 0], n).pages

(* load_pdf called again on the constructed object *)
LoadPdf ==
    /\ Len(pages) + pdf_path <= MaxPages
    /\ pages' = load_pdf(pdf_processor, pdf_path).pages
    /\ call' = "load_pdf"
    /\ UNCHANGED <<pdf_path, current_page, returned, page_before, indexed,
                   running, show_webcam, pending>>
    /\ UNCHANGED detector_vars

NextPage ==
    \E r \in {next_page(pdf_processor)} :
        /\ current_page' = r.self.current_page
        /\ returned' = <<r.result>>
        /\ page_before' = current_page
        /\ call' = "next_page"
        /\ UNCHANGED <<pdf_path, pages, indexed, running, show_webcam,
                       pending>>
        /\ UNCHANGED detector_vars

PreviousPage ==
    \E r \in {previous_page(pdf_processor)} :
        /\ current_page' = r.self.current_page
        /\ returned' = <<r.result>>
        /\ page_before' = current_page
        /\ call' = "previous_page"
        /\ UNCHANGED <<pdf_path, pages, indexed, running, show_webcam,
                       pending>>
        /\ UNCHANGED detector_vars

RenderBook ==
    /\ indexed' = render_book(pdf_processor)
    /\ call' = "render_book"
    /\ UNCHANGED <<pdf_path, pages, current_page, returned, page_before, running,
                   show_webcam, pending>>
    /\ UNCHANGED detector_vars

(* PDFProcessor under any caller of its public methods, and render_book *)
NextPages == LoadPdf \/ NextPage \/ PreviousPage \/ RenderBook

SpecPages == InitPages /\ [][NextPages]_vars

(* ---- the application loop ---- *)
MaxEvents == 2
AppPages == 3

(* The events handle_events tells apart, and one it skips. *)
QuitEvent == [type |-> "QUIT", key |-> ""]
KeyDown(k) == [type |-> "KEYDOWN", key |-> k]
PygameEvents ==
    {QuitEvent, KeyDown("K_ESCAPE"), KeyDown("K_SPACE"), KeyDown("K_a")}

EventLists == UNION {SeqsOf(PygameEvents, n) : n \in 0..MaxEvents}

(* handle_events on the events pygame.event.get() returned; its values     *)
(* False, 'toggle_webcam' and True are written as strings.                 *)
RECURSIVE handle_events(_)
handle_events(evs) ==
    IF evs = <<>> THEN "True"
    ELSE LET event == Head(evs)
         IN  IF event.type = "QUIT" THEN "False"
             ELSE IF event.type = "KEYDOWN" /\ event.key = "K_ESCAPE"
                  THEN "False"
             ELSE IF event.type = "KEYDOWN" /\ event.key = "K_SPACE"
                  THEN "toggle_webcam"
             ELSE handle_events(Tail(evs))

(* The camera shows a hand in the priming pose, or flat at 0.30 or at 0.43. *)
AppFrames == {Frame(<<h>>, <<>>) : h \in Hands}

(* The detector as constructed; the clock reads more than the cooldown and *)
(* stands still over the iterations modelled.                              *)
InitApp ==
    /\ finger_licked = FALSE
    /\ lick_time = 0
    /\ last_gesture_time = 0
    /\ was_at_lips = FALSE
    /\ gesture_started = FALSE
    /\ movement_frames = 0
    /\ start_x = NoX
    /\ position_history = <<>>
    /\ thumb_history = <<>>
    /\ now = TrackTime
    /\ frame = NoFrame
    /\ gesture = None
    /\ classified = FALSE
    /\ call = "init"
    /\ primed = FALSE
    /\ since_event = <<>>
    /\ tracked = NotTracked
    /\ consecutive = 0
    /\ InitReader
    /\ pdf_path = AppPages
    /\ pages = load_pdf([pages |-> <<>>, current_page |-> 0], AppPages).pages

(* One iteration of the loop of run() on which the camera delivers a frame *)
RunIteration ==
    /\ running
    /\ call \in {"init", "run"}
    /\ \E f \in AppFrames, evs \in EventLists :
          /\ DetectOn(f, 0)
          /\ \E g \in {detect_gesture(self, f, now).gesture},
                event_result \in {handle_events(evs)} :
                /\ \E r \in {IF g = "left" THEN next_page(pdf_processor)
                              ELSE previous_page(pdf_processor)} :
                      IF g \in {"left", "right"}
                      THEN /\ current_page' = r.self.current_page
                           /\ returned' = <<r.result>>
                           /\ page_before' = current_page
                      ELSE UNCHANGED <<current_page, returned, page_before>>
                /\ running' = IF event_result = "False" THEN FALSE ELSE running
                /\ show_webcam' = IF event_result = "toggle_webcam"
                                  THEN ~show_webcam ELSE show_webcam
          /\ pending' = evs
          /\ indexed' = render_book([pages |-> pages,
                                     current_page |-> current_page'])
          /\ call' = "run"
          /\ UNCHANGED <<pdf_path, pages>>

(* cap.read() fails: the loop breaks and cleanup() runs *)
ReadFails ==
    /\ running
    /\ call \in {"init", "run"}
    /\ call' = "cleanup"
    /\ UNCHANGED reader_vars
    /\ UNCHANGED detector_vars

(* running is False at the loop test: cleanup() runs *)
LoopEnds ==
    /\ ~running
    /\ call = "run"
    /\ call' = "cleanup"
    /\ UNCHANGED reader_vars
    /\ UNCHANGED detector_vars

NextApp == RunIteration \/ ReadFails \/ LoopEnds

SpecApp == InitApp /\ [][NextApp]_vars

(***************************************************************************)
(* Properties                                                              *)
(***************************************************************************)
(* The step from the unprimed to the primed state is a detect_gesture call *)
(* (its frame is frame', its time now').                                   *)
Detects == call' = "detect_gesture"

(* ... on which, after the expiry check, priming is active. *)
LickedAt(t) == finger_licked /\ t - lick_time <= lick_timeout

(* ... which appends a sample: a hand, priming active, no pose. *)
Tracks ==
    /\ Detects
    /\ frame'.hands # <<>>
    /\ ~PoseDetected(frame')
    /\ LickedAt(now')

Events == {"left", "right"}

(* C1: two-phase gating.  An event is emitted only on a step on which      *)
(* priming is active, and only if, since the last emitted event (or since  *)
(* construction), some step detected the priming pose with priming going   *)
(* from inactive to active.                                                *)
C1_TwoPhaseGating ==
    [][(Detects /\ gesture' \in Events) => (LickedAt(now') /\ primed)]_vars

(* a second event has been emitted, after priming again *)
C1_Witness ==
    /\ call = "detect_gesture"
    /\ gesture \in Events
    /\ since_event # <<>>

(* C2 as stated: two emitted events are never within gesture_cooldown of   *)
(* each other.                                                             *)
C2_Cooldown ==
    (call = "detect_gesture" /\ gesture \in Events /\ since_event # <<>>)
        => since_event[1] > gesture_cooldown

(* C2, amended: no event is emitted on a step within gesture_cooldown of   *)
(* last_gesture_time, and an event within gesture_cooldown of the previous *)
(* event is emitted only after priming was performed again, which reset    *)
(* last_gesture_time to 0.                                                 *)
C2_CooldownUnlessReprimed ==
    [][(Detects /\ gesture' \in Events) =>
          /\ now' - last_gesture_time > gesture_cooldown
          /\ (since_event' # <<>> /\ since_event'[1] <= gesture_cooldown)
             => (primed /\ last_gesture_time = 0)]_vars

(* two events 1.5 s apart *)
C2_Witness ==
    /\ call = "detect_gesture"
    /\ gesture \in Events
    /\ since_event = <<gesture_cooldown>>

(* C3: after a detect_gesture step that observes no hand, both histories   *)
(* are empty and tracking is not started (start_x cleared).                *)
C3_HandAbsentClears ==
    (call = "detect_gesture" /\ frame.hands = <<>>) =>
        /\ position_history = <<>>
        /\ thumb_history = <<>>
        /\ ~gesture_started
        /\ start_x = NoX

(* C4 as stated: priming achieved at lick_time is no longer active after a *)
(* step evaluated at or after lick_time + lick_timeout.                    *)
C4_ExpiresAtTimeout ==
    (call = "detect_gesture" /\ finger_licked) => now - lick_time < lick_timeout

(* C4, amended: priming achieved at lick_time is no longer active after a  *)
(* step evaluated strictly after lick_time + lick_timeout.                 *)
C4_ExpiresAfterTimeout ==
    (call = "detect_gesture" /\ finger_licked) => now - lick_time <= lick_timeout

(* priming was achieved, no event was ever emitted, and the step evaluated *)
(* after the timeout left priming inactive                                 *)
C4_Witness ==
    /\ call = "detect_gesture"
    /\ primed
    /\ since_event = <<>>
    /\ ~finger_licked
    /\ now - lick_time > lick_timeout

(* C5: after the step that emits an event, both histories are empty,       *)
(* tracking is not started, priming is inactive and last_gesture_time is   *)
(* the time of that step.                                                  *)
C5_EmitResets ==
    (call = "detect_gesture" /\ gesture \in Events) =>
        /\ position_history = <<>>
        /\ thumb_history = <<>>
        /\ ~gesture_started
        /\ ~finger_licked
        /\ last_gesture_time = now

C5_Witness ==
    /\ call = "detect_gesture"
    /\ gesture = "left"
    /\ now > 0
    /\ since_event # <<>>

(* C6: a step returns None, 'left' or 'right', and None whenever the hand  *)
(* is absent, priming is not active, or the priming pose is detected on    *)
(* the same frame.                                                         *)
C6_ReturnsNone ==
    [][Detects =>
          /\ gesture' \in {None, "left", "right"}
          /\ (frame'.hands = <<>> \/ ~LickedAt(now') \/ PoseDetected(frame'))
             => gesture' = None]_vars

(* the pose is detected while priming is active: the step returns None *)
C6_Witness ==
    /\ call = "detect_gesture"
    /\ PoseDetected(frame)
    /\ finger_licked
    /\ now > lick_time
    /\ gesture = None

(* C7: priming goes from active to inactive only on a step whose time is   *)
(* past the timeout, on a step that emits an event, or in reset; a         *)
(* hand-absent step within the timeout leaves finger_licked and lick_time. *)
C7_PrimingSurvives ==
    [][/\ (finger_licked /\ ~finger_licked') =>
            \/ call' = "reset"
            \/ Detects /\ now' - lick_time > lick_timeout
            \/ Detects /\ gesture' \in Events
       /\ (Detects /\ frame'.hands = <<>> /\ now' - lick_time <= lick_timeout)
          => UNCHANGED <<finger_licked, lick_time>>]_vars

(* no hand, 1.5 s or more into the priming window, priming still active *)
C7_Witness ==
    /\ call = "detect_gesture"
    /\ frame.hands = <<>>
    /\ finger_licked
    /\ now > lick_time

(* C8: each history holds at most history_size samples, and a sample       *)
(* appended to a full history evicts the oldest one.                       *)
C8_BoundedFifo ==
    [][/\ Len(position_history') <= history_size
       /\ Len(thumb_history') <= history_size
       /\ (Tracks /\ position_history' # <<>>
                  /\ Len(position_history) = history_size)
          => position_history' =
                 Append(Tail(position_history), frame'.hands[1].middle_x)
       /\ (Tracks /\ thumb_history' # <<>>
                  /\ Len(thumb_history) = history_size)
          => thumb_history' =
                 Append(Tail(thumb_history), frame'.hands[1].thumb_x)]_vars

(* one tracked run has appended more than history_size samples *)
C8_Witness ==
    /\ call = "detect_gesture"
    /\ gesture_started
    /\ movement_frames >= history_size
    /\ Len(position_history) = history_size
    /\ Len(thumb_history) = history_size

(* C9: the classifier runs (and so an event is emitted) only on a step     *)
(* before which tracking was started, with the frame counter at least      *)
(* min_frames, both histories at least 5 samples and the cooldown over;    *)
(* the step that starts tracking never classifies.                         *)
C9_ClassifyGuard ==
    [][Detects =>
          /\ gesture' \in Events => classified'
          /\ classified' =>
                /\ gesture_started
                /\ movement_frames + 1 >= min_frames
                /\ Len(position_history) + 1 >= min_samples
                /\ Len(thumb_history) + 1 >= min_samples
                /\ now' - last_gesture_time > gesture_cooldown
          /\ ~gesture_started => (~classified' /\ gesture' = None)]_vars

(* the classifier ran on exactly min_samples samples and found no swipe *)
C9_Witness ==
    /\ call = "detect_gesture"
    /\ classified
    /\ gesture = None
    /\ Len(position_history) = min_samples

(* The decision as the specification words it, in thousandths and per     *)
(* cent: vote counts per consecutive step, ratios of the votes cast, right *)
(* tried before left.                                                      *)
RECURSIVE Votes(_, _)
Votes(h, dir) ==
    IF Len(h) < 2 THEN 0
    ELSE LET step == h[2] - h[1]
             vote == IF dir = "right" THEN step > 10 ELSE step < -10
         IN  (IF vote THEN 1 ELSE 0) + Votes(Tail(h), dir)

(* Votes(h, dir) / (votes cast) > pct / 100, false when no vote is cast *)
RatioAbove(h, dir, pct) ==
    LET cast == Votes(h, "right") + Votes(h, "left")
    IN  cast > 0 /\ 100 * Votes(h, dir) > pct * cast

Decision(H_f, H_t) ==
    LET d == H_f[Len(H_f)] - H_f[1]
        fast == d > 200 \/ -d > 200
    IN  IF /\ d > 120
           /\ RatioAbove(H_f, "right", IF fast THEN 50 ELSE 60)
           /\ RatioAbove(H_f, "right", 50)
           /\ RatioAbove(H_t, "right", 50)
        THEN "right"
        ELSE IF /\ d < -100
                /\ RatioAbove(H_f, "left", IF fast THEN 45 ELSE 55)
                /\ RatioAbove(H_f, "left", 45)
                /\ RatioAbove(H_t, "left", 45)
             THEN "left"
             ELSE None

(* C10: on every pair of histories the classifier returns 'right' iff the  *)
(* net finger displacement exceeds 0.12 and the right-vote ratios pass,    *)
(* else 'left' iff it is below -0.10 and the left-vote ratios pass, else   *)
(* None.                                                                   *)
C10_Decision ==
    call = "classify" => gesture = Decision(tracked[1], tracked[2])

(* a leftward displacement between 0.10 and 0.12 is classified 'left' *)
C10_Witness ==
    /\ call = "classify"
    /\ gesture = "left"
    /\ tracked[1][1] - tracked[1][Len(tracked[1])] > swipe_threshold_left
    /\ tracked[1][1] - tracked[1][Len(tracked[1])] <= swipe_threshold_right
    /\ position_history = <<>>
    /\ ~finger_licked

(* ---- the classifier inside one tracking step ---- *)
TrackedF == tracked[1]
TrackedT == tracked[2]

Net(h) == h[Len(h)] - h[1]

(* Votes(h, dir) / (votes cast) >= pct / 100, false when no vote is cast *)
RatioAtLeast(h, dir, pct) ==
    LET cast == Votes(h, "right") + Votes(h, "left")
    IN  cast > 0 /\ 100 * Votes(h, dir) >= pct * cast

(* The latest step ran the classifier (priming active, cooldown over) on   *)
(* histories of at least 5 samples.                                        *)
Classified ==
    /\ call = "detect_gesture"
    /\ classified
    /\ Len(TrackedF) >= 5
    /\ Len(TrackedT) >= 5

(* C11 as stated: a classified finger history with net displacement +0.15, *)
(* the thumb moving the same way, and a right-vote ratio of at least 60%   *)
(* on both finger and thumb yields 'right'.                                *)
C11_RightAtSixty ==
    (/\ Classified
     /\ Net(TrackedF) = 150
     /\ Net(TrackedT) > 0
     /\ RatioAtLeast(TrackedF, "right", 60)
     /\ RatioAtLeast(TrackedT, "right", 60)) => gesture = "right"

(* C11, amended: the finger's right-vote ratio has to be strictly above    *)
(* 60%; for the thumb at least 60% is enough.                              *)
C11_RightAboveSixty ==
    (/\ Classified
     /\ Net(TrackedF) = 150
     /\ Net(TrackedT) > 0
     /\ RatioAbove(TrackedF, "right", 60)
     /\ RatioAtLeast(TrackedT, "right", 60)) => gesture = "right"

(* 'right' on a history 0.15 to the right that holds a leftward step *)
C11_Witness ==
    /\ Classified
    /\ gesture = "right"
    /\ Net(TrackedF) = 150
    /\ Votes(TrackedF, "left") > 0
    /\ RatioAtLeast(TrackedT, "right", 60)

(* C12: a classified finger history of 5 to 15 samples with net            *)
(* displacement -0.13 and a left-vote ratio of at least 55% on both finger *)
(* and thumb yields 'left'.  (Up to 15 samples cast at most 14 votes, and  *)
(* no ratio of at most 14 votes is exactly 55%.)                           *)
C12_LeftAtFiftyFive ==
    /\ \A n \in 1..(history_size - 1) : \A k \in 0..n :
           100 * k >= 55 * n => 100 * k > 55 * n
    /\ (/\ Classified
        /\ Len(TrackedF) <= history_size
        /\ Net(TrackedF) = -130
        /\ RatioAtLeast(TrackedF, "left", 55)
        /\ RatioAtLeast(TrackedT, "left", 55)) => gesture = "left"

(* 'left' on a history 0.13 to the left that holds a rightward step *)
C12_Witness ==
    /\ Classified
    /\ gesture = "left"
    /\ Net(TrackedF) = -130
    /\ Votes(TrackedF, "right") > 0
    /\ Votes(TrackedT, "right") > 0
    /\ RatioAtLeast(TrackedF, "left", 55)
    /\ RatioAtLeast(TrackedT, "left", 55)

(* C13: cross-point agreement.  A classified finger history with net       *)
(* displacement +0.15 whose thumb history has a left-vote ratio above 50%  *)
(* yields None.                                                            *)
C13_ThumbDisagrees ==
    (/\ Classified
     /\ Net(TrackedF) = 150
     /\ RatioAbove(TrackedT, "left", 50)) => gesture = None

(* the finger alone qualifies as a right swipe, the thumb moves left *)
C13_Witness ==
    /\ Classified
    /\ gesture = None
    /\ Net(TrackedF) = 150
    /\ RatioAbove(TrackedF, "right", 60)
    /\ RatioAbove(TrackedT, "left", 50)
    /\ position_history = TrackedF

(* ---- static hands ---- *)
(* C14 as stated: a detect_gesture step fed the very frame of the call     *)
(* before it, a hand in it, emits no event and leaves at most history_size *)
(* samples in each history, whatever state the run of equal frames began   *)
(* in.                                                                     *)
C14_StaticFromAnyState ==
    [][(/\ call = "detect_gesture"
        /\ Detects
        /\ frame' = frame
        /\ frame.hands # <<>>)
       => /\ gesture' = None
          /\ Len(position_history') <= history_size
          /\ Len(thumb_history') <= history_size]_vars

(* Every sample of h is x. *)
AllAt(h, x) == \A i \in 1..Len(h) : h[i] = x

(* C14, amended: a step emits no event when, after its append, the         *)
(* histories hold only samples of the hand position of its frame, as they  *)
(* do along a run of equal frames that began with empty histories; and no  *)
(* history ever exceeds history_size samples.                              *)
C14_StaticFromEmpty ==
    /\ Len(position_history) <= history_size
    /\ Len(thumb_history) <= history_size
    /\ (/\ call = "detect_gesture"
        /\ tracked # NotTracked
        /\ AllAt(TrackedF, frame.hands[1].middle_x)
        /\ AllAt(TrackedT, frame.hands[1].thumb_x)) => gesture = None

(* a static run of more than history_size frames, classified on a full     *)
(* history *)
C14_Witness ==
    /\ Classified
    /\ gesture = None
    /\ AllAt(TrackedF, frame.hands[1].middle_x)
    /\ AllAt(TrackedT, frame.hands[1].thumb_x)
    /\ Len(TrackedF) = history_size
    /\ movement_frames > history_size

(* ---- degenerate classifier input ---- *)
(* The votes cast by a history: the steps outside the noise floor. *)
Cast(h) == Votes(h, "right") + Votes(h, "left")

(* C15: when the classifier runs on histories of which the finger's or the *)
(* thumb's casts no vote, the step returns None (no division by zero       *)
(* raises) and updates the state as any unclassified tracking step does:   *)
(* the sample stays appended, the frame counter is incremented, tracking   *)
(* stays started, priming and both times are untouched.                    *)
C15_ZeroVotes ==
    [][(/\ Detects
        /\ classified'
        /\ movement_frames + 1 <= max_frames
        /\ (Cast(tracked'[1]) = 0 \/ Cast(tracked'[2]) = 0))
       => /\ gesture' = None
          /\ position_history' = tracked'[1]
          /\ thumb_history' = tracked'[2]
          /\ movement_frames' = movement_frames + 1
          /\ gesture_started'
          /\ UNCHANGED <<finger_licked, lick_time, last_gesture_time,
                         start_x>>]_vars

(* the finger alone qualifies as a right swipe, the thumb casts no vote *)
C15_Witness ==
    /\ Classified
    /\ gesture = None
    /\ Net(TrackedF) = 150
    /\ RatioAbove(TrackedF, "right", 60)
    /\ Cast(TrackedT) = 0
    /\ position_history = TrackedF
    /\ gesture_started

(* ---- the priming timestamp ---- *)
(* C16: while priming is active, lick_time is the time of the step on      *)
(* which priming last went from inactive to active, and now - lick_time    *)
(* is at most lick_timeout.  Stated step by step: priming becomes active   *)
(* only on a step that detects the pose with priming inactive after the    *)
(* expiry check; that step sets lick_time to its time; no other step and   *)
(* no reset changes lick_time; and a step that detects the pose with       *)
(* priming already active leaves lick_time and last_gesture_time.          *)
C16_PrimingTimestamp ==
    [][/\ finger_licked' => now' - lick_time' <= lick_timeout
       /\ Detects =>
             IF RisingEdge(self, frame', now')
             THEN finger_licked' /\ lick_time' = now'
             ELSE /\ lick_time' = lick_time
                  /\ finger_licked' => finger_licked
       /\ call' = "reset" => (lick_time' = lick_time /\ ~finger_licked')
       /\ (Detects /\ PoseDetected(frame') /\ LickedAt(now'))
          => UNCHANGED <<lick_time, last_gesture_time>>]_vars

(* primed again after an event, and the pose seen once more 1.5 s or more  *)
(* later *)
C16_Witness ==
    /\ call = "detect_gesture"
    /\ PoseDetected(frame)
    /\ finger_licked
    /\ since_event # <<>>
    /\ lick_time > 0
    /\ now > lick_time

(* ---- the cooldown branch ---- *)
(* C17: cooldown precedence.  A tracking step (hand present, priming       *)
(* active, no pose) taken with tracking already started and within         *)
(* gesture_cooldown of last_gesture_time runs no classification, emits no  *)
(* event, stops tracking and empties both histories.                       *)
C17_CooldownPrecedence ==
    [][(/\ Tracks
        /\ gesture_started
        /\ now' - last_gesture_time <= gesture_cooldown)
       => /\ ~classified'
          /\ gesture' = None
          /\ ~gesture_started'
          /\ position_history' = <<>>
          /\ thumb_history' = <<>>]_vars

(* the cooldown dropped histories that qualify as a swipe *)
C17_Witness ==
    /\ call = "detect_gesture"
    /\ Len(TrackedF) >= min_samples
    /\ Decision(TrackedF, TrackedT) \in Events
    /\ now - last_gesture_time <= gesture_cooldown
    /\ ~classified
    /\ gesture = None
    /\ position_history = <<>>

(* ---- the max_frames discard ---- *)
(* C18: the tracking step that takes the frame counter above max_frames    *)
(* stops tracking and empties both histories; so after every step          *)
(* gesture_started implies movement_frames <= max_frames, and an event is  *)
(* emitted only with the frame counter at most max_frames + 1 (26 frames   *)
(* tracked after the one that started the run).                            *)
C18_MaxFramesDiscard ==
    [][/\ gesture_started' => movement_frames' <= max_frames
       /\ (Tracks /\ gesture_started /\ movement_frames + 1 > max_frames)
          => /\ ~gesture_started'
             /\ position_history' = <<>>
             /\ thumb_history' = <<>>
       /\ (Detects /\ gesture' \in Events)
          => (gesture_started /\ movement_frames' <= max_frames + 1)]_vars

(* a run discarded at 26 frames, outside the cooldown, without an event *)
C18_Witness ==
    /\ call = "detect_gesture"
    /\ tracked # NotTracked
    /\ movement_frames = max_frames + 1
    /\ now - last_gesture_time > gesture_cooldown
    /\ gesture = None
    /\ ~gesture_started
    /\ position_history = <<>>
    /\ thumb_history = <<>>

(* ---- priming waives the cooldown ---- *)
(* C19: the step on which priming goes from inactive to active sets        *)
(* last_gesture_time to 0, waiving any cooldown still running from a       *)
(* previous swipe: no tracking step of a started run after it is           *)
(* suppressed by the cooldown branch.                                      *)
C19_CooldownWaived ==
    [][/\ (Detects /\ RisingEdge(self, frame', now'))
          => last_gesture_time' = 0
       /\ (Tracks /\ gesture_started)
          => now' - last_gesture_time > gesture_cooldown]_vars

(* a run tracked past its second frame within 1.5 s of the previous event, *)
(* its sample kept *)
C19_Witness ==
    /\ call = "detect_gesture"
    /\ tracked # NotTracked
    /\ since_event # <<>>
    /\ since_event[1] <= gesture_cooldown
    /\ now > gesture_cooldown
    /\ last_gesture_time = 0
    /\ gesture_started
    /\ movement_frames >= 1
    /\ position_history = TrackedF
    /\ Len(position_history) >= 2

(* ---- steps that do not track ---- *)
(* C20: on a step with a hand present on which priming is not active       *)
(* (after the expiry check) or the priming pose is detected, no sample is  *)
(* appended, tracking is not started and both histories are empty          *)
(* afterwards.                                                             *)
C20_UntrackedStepClears ==
    [][(/\ Detects
        /\ frame'.hands # <<>>
        /\ (~LickedAt(now') \/ PoseDetected(frame')))
       => /\ tracked' = NotTracked
          /\ ~gesture_started'
          /\ position_history' = <<>>
          /\ thumb_history' = <<>>]_vars

(* priming ran out, with no event, on a frame with the hand away from the  *)
(* lips, after tracking had started *)
C20_Witness ==
    /\ call = "detect_gesture"
    /\ frame.hands # <<>>
    /\ ~PoseDetected(frame)
    /\ primed
    /\ since_event = <<>>
    /\ start_x # NoX
    /\ ~finger_licked
    /\ now - lick_time > lick_timeout
    /\ ~gesture_started
    /\ position_history = <<>>

(* ---- priming detection ---- *)
(* The pose heuristic as the specification words it, in thousandths. *)
PoseHeuristic(h) ==
    /\ h.pip_y - h.index_y > 50
    /\ h.index_y < 500
    /\ h.middle_y - h.index_y > 50
    /\ h.ring_y - h.index_y > 50
    /\ h.pinky_y - h.index_y > 50

(* The proximity heuristic: the distance from the index tip to the middle  *)
(* of the two lip landmarks is below 0.08 (squared, and doubled to keep    *)
(* the middle an integer); false without a face.                           *)
ProximityHeuristic(h, faces) ==
    /\ faces # <<>>
    /\ LET dx == 2 * h.index_x - (faces[1].upper_x + faces[1].lower_x)
           dy == 2 * h.index_y - (faces[1].upper_y + faces[1].lower_y)
       IN  dx * dx + dy * dy < 160 * 160

(* C21: a step taken with priming inactive makes priming active exactly    *)
(* when the pose heuristic or the proximity heuristic holds of its frame,  *)
(* and without a face exactly when the pose heuristic holds.               *)
C21_PrimingIsOr ==
    (call = "detect_gesture" /\ frame.hands # <<>>) =>
        /\ primed <=> (\/ PoseHeuristic(frame.hands[1])
                       \/ ProximityHeuristic(frame.hands[1], frame.faces))
        /\ frame.faces = <<>> => (primed <=> PoseHeuristic(frame.hands[1]))
        /\ primed <=> (finger_licked /\ was_at_lips)

(* primed by proximity alone: the index tip is too low for the pose *)
C21_Witness ==
    /\ call = "detect_gesture"
    /\ frame.hands # <<>>
    /\ finger_licked
    /\ ~PoseHeuristic(frame.hands[1])
    /\ ProximityHeuristic(frame.hands[1], frame.faces)

(* ---- samples of one classification ---- *)
(* C24: whenever the classifier runs, every two adjacent samples of the     *)
(* finger history, and of the thumb history, were appended by two          *)
(* detect_gesture steps that followed one another directly: all the        *)
(* samples it reads are directly consecutive.                              *)
C24_AdjacentSamples ==
    Classified =>
        /\ consecutive >= Len(TrackedF)
        /\ consecutive >= Len(TrackedT)

(* ---- priming and the time of the last event ---- *)
(* C25: whenever priming is active last_gesture_time is 0; hence a         *)
(* tracking step at a clock above gesture_cooldown does not meet the       *)
(* cooldown condition, and when it neither emits nor exceeds max_frames    *)
(* it keeps its sample and stays started instead of clearing.              *)
C25_PrimedMeansNoCooldown ==
    [][/\ finger_licked' => last_gesture_time' = 0
       /\ (Tracks /\ now' > gesture_cooldown)
          => /\ last_gesture_time = 0
             /\ ~(now' - last_gesture_time <= gesture_cooldown)
             /\ (gesture' = None /\ movement_frames' <= max_frames
                 /\ movement_frames' > 0)
                => /\ gesture_started'
                   /\ position_history' = tracked'[1]
                   /\ thumb_history' = tracked'[2]]_vars

(* primed again after an event, less than 1.5 s ago on a clock above 1.5 s, *)
(* and the classifier ran on the latest step *)
C25_Witness ==
    /\ call = "detect_gesture"
    /\ finger_licked
    /\ last_gesture_time = 0
    /\ since_event # <<>>
    /\ now > gesture_cooldown
    /\ since_event[1] <= gesture_cooldown
    /\ classified
    /\ gesture = None
    /\ position_history = TrackedF

(* ---- the two histories ---- *)
(* C27: the finger history and the thumb history always have the same      *)
(* length, and a step changes the length of both alike.                    *)
C27_SameLength ==
    [][/\ Len(position_history') = Len(thumb_history')
       /\ Len(position_history') - Len(position_history)
          = Len(thumb_history') - Len(thumb_history)]_vars

(* full histories that have evicted their oldest samples, then cleared *)
C27_Witness ==
    /\ call = "detect_gesture"
    /\ Len(TrackedF) = history_size
    /\ Len(TrackedT) = history_size
    /\ movement_frames >= history_size
    /\ Len(position_history) = history_size
    /\ Len(thumb_history) = history_size

(* ---- turning pages ---- *)
(* C22 as stated: a next_page call that returns True, followed by          *)
(* previous_page, restores current_page.                                   *)
C22_Reversible ==
    [][(call = "next_page" /\ returned = <<TRUE>> /\ call' = "previous_page")
       => current_page' = page_before]_vars

(* The pages were loaded once, as the constructor does. *)
LoadedOnce == pages = Document(pdf_path)

(* C22, amended: ... restores current_page, except after a next_page that  *)
(* moved by one page only, onto the last page of a document of at least 3  *)
(* pages, where previous_page ends one page below; in both cases, when the *)
(* pages were loaded once, render_book then shows the pages it showed      *)
(* before the two calls.                                                   *)
C22_ReversibleSpread ==
    [][(call = "next_page" /\ returned = <<TRUE>> /\ call' = "previous_page")
       => /\ IF current_page = page_before + 2 \/ Len(pages) < 3
             THEN current_page' = page_before
             ELSE /\ current_page = Len(pages) - 1
                  /\ current_page = page_before + 1
                  /\ current_page' = page_before - 1
          /\ LoadedOnce
             => render_book([pages |-> pages, current_page |-> current_page'])
                = render_book([pages |-> pages, current_page |-> page_before])]_vars

(* forward onto the last page by one page, and back, pages loaded once *)
C22_Witness ==
    /\ call = "previous_page"
    /\ returned = <<TRUE>>
    /\ LoadedOnce
    /\ Len(pages) >= 4
    /\ page_before = Len(pages) - 1
    /\ current_page = Len(pages) - 3
    /\ current_page % 2 = 1

(* ---- the page position ---- *)
(* C26: current_page stays within 0..max(n - 1, 0) for a document of n     *)
(* pages; next_page returns False and leaves current_page unchanged        *)
(* exactly when it finds current_page >= n - 1, previous_page exactly when *)
(* it finds current_page = 0; and render_book reads only positions         *)
(* 0..n - 1 of pages.                                                      *)
C26_PageInRange ==
    [][/\ current_page' \in 0..Max(Len(pages') - 1, 0)
       /\ (call' = "next_page")
          => /\ (returned' = <<FALSE>>) <=> (current_page >= Len(pages) - 1)
             /\ (current_page' = current_page)
                <=> (current_page >= Len(pages) - 1)
       /\ (call' = "previous_page")
          => /\ (returned' = <<FALSE>>) <=> (current_page = 0)
             /\ (current_page' = current_page) <=> (current_page = 0)
       /\ (call' = "render_book")
          => indexed' \subseteq 0..(Len(pages) - 1)]_vars

(* the last page, on the left of its spread, rendered alone after          *)
(* next_page returned False on it *)
C26_Witness ==
    /\ call = "render_book"
    /\ returned = <<FALSE>>
    /\ page_before = current_page
    /\ current_page = Len(pages) - 1
    /\ current_page % 2 = 1
    /\ indexed = {current_page}

(* ---- leaving the application ---- *)
Exits(event) ==
    \/ event.type = "QUIT"
    \/ event.type = "KEYDOWN" /\ event.key = "K_ESCAPE"

(* C23: whenever a QUIT event or an ESC key-down is among the events       *)
(* pending at the handle_events call of a loop iteration, running is false *)
(* at the end of that iteration, whatever other events are pending with it *)
(* and in whatever order.                                                  *)
C23_ExitHandled ==
    (call = "run" /\ \E i \in 1..Len(pending) : Exits(pending[i]))
        => ~running

====
